---- MODULE Spec2Model ----
(***************************************************************************)
(* Model of the stream store and process control of iptv-management        *)
(* (lib/data.ts and the API routes under app/api/streams).                  *)
(*                                                                          *)
(* The async functions of data.ts are modelled at the granularity of their *)
(* await points: the code between two awaits is one atomic step, and the  *)
(* steps of different in-flight calls interleave.  All file-system and     *)
(* child_process calls of the code are synchronous (readFileSync,          *)
(* writeFileSync, execSync, spawn) and happen inside a step.               *)
(*                                                                          *)
(* The operating system is modelled by the process table `procs`: each     *)
(* entry is one launch of a stream script (the `sh` retry loop and the     *)
(* ffmpeg child it runs).  pkill -f selects processes by a substring of    *)
(* their command line; SIGTERM ends the `sh` loop at once and makes ffmpeg *)
(* shut down asynchronously.  startStream and stopStream follow the branch *)
(* of process.platform: `sh <script>` and pkill on Linux/Mac, cmd.exe with  *)
(* ffmpeg redirected into the log file and taskkill on Windows.            *)
(*                                                                          *)
(* Specifications:                                                          *)
(*   Spec      create, update, delete and control requests are handled as  *)
(*             they arrive, calls overlap;                                  *)
(*   SpecSeq   the same requests, one at a time;                            *)
(*   SpecPlat  the same, on Linux and on Windows;                           *)
(*   SpecControl create and control requests one at a time, on Linux and   *)
(*             on Windows;                                                  *)
(*   SpecReads SpecSeq with the read requests and the clearing of logs;     *)
(*   SpecProbe create and control requests one at a time, with the process  *)
(*             endpoint;                                                    *)
(*   SpecSample control requests for a started stream one at a time, with *)
(*             the metrics sampled at any moment;                           *)
(*   SpecOverlap control and delete requests for one created stream,      *)
(*             calls overlap;                                               *)
(*   SpecEdit  create requests and updates of the script fields, one at a  *)
(*             time;                                                        *)
(*   SpecLogs  getStreamLogs applied to every small log file;               *)
(*   SpecStats the dashboard and the process endpoint on every platform,    *)
(*             with every outcome of the probe commands;                    *)
(*   SpecHealth the dashboard on every small store content;                *)
(*   SpecInfo  the process endpoint on a started stream, for the ffmpeg     *)
(*             output its log may hold;                                     *)
(*   SpecToast the toast list of the user interface;                       *)
(*   SpecLoop  the retry loop of one started transcoder, in seconds.       *)
(***************************************************************************)
EXTENDS Integers, Sequences, FiniteSets, TLC

\* ---------------------------------------------------------------- bounds
MaxStreams == 2     \* streams ever created (ids 1..MaxStreams)
MaxOps == 2         \* update/delete/start/stop/restart calls ever issued
MaxInFlight == 2    \* calls in progress at the same time
MaxLen == 5         \* characters of a log file in the log-reading specification
MaxLimit == 3       \* largest limit passed to getStreamLogs

Ids == 1..MaxStreams
Slots == 1..MaxInFlight
SeqSlots == {1}

\* Input URLs are character sequences, so that "is a substring of" is computed.
\* The k-th create request carries the URL RequestLink(k): the first stream's
\* URL is a proper substring of the URL of the later ones.
RequestLink(k) == IF k = 1 THEN <<1>> ELSE <<1, 2>>

\* a file that does not exist
NoFile == [exists |-> FALSE, data |-> <<>>]
File(data) == [exists |-> TRUE, data |-> data]
None == "none"

VARIABLES
    streams,    \* content of STREAMS_FILE: sequence of stream records
    scripts,    \* STREAM_SCRIPTS_DIR: id -> the values written in <id>.sh, or NoFile
    logs,       \* STREAM_LOGS_DIR: id -> sequence of records of <id>.log, or NoFile
    procs,      \* OS process table: launches of stream scripts still alive
    calls,      \* in-flight calls of the exported async functions, by slot
    nextId,     \* number of ids generated so far by crypto.randomUUID
    issued,     \* number of update/delete/control calls issued so far
    logData,    \* log-reading specification: content of a log file
    logLimit,   \* log-reading specification: the limit argument
    logResult,  \* log-reading specification: value returned by getStreamLogs
    platform,   \* process.platform
    osProbes,   \* what the probe commands run by execSync do: probe -> outcome
    reply,      \* the response to the last read request
    loop,       \* retry specification: the supervision of one started transcoder
    toasts      \* ToastProvider: the toast list and its pending removal timers

vars == <<streams, scripts, logs, procs, calls, nextId, issued, logData, logLimit, logResult,
          platform, osProbes, reply, loop, toasts>>
storeVars == <<streams, scripts, logs, procs, calls, nextId, issued>>
logVars == <<logData, logLimit, logResult>>
envVars == <<platform, osProbes>>
\* what the calls that change the store leave alone
sideVars == <<logData, logLimit, logResult, platform, osProbes, reply, loop, toasts>>

\* ------------------------------------------------------- pure helpers
\* String.prototype.includes / the pattern match of pkill -f
IsSubstr(p, s) ==
    \E i \in 0..(Len(s) - Len(p)) : \A k \in 1..Len(p) : s[i + k] = p[k]

\* streams.findIndex(stream => stream.id === id); 0 stands for -1
FindIndex(list, id) ==
    IF \E i \in 1..Len(list) : list[i].id = id
    THEN CHOOSE i \in 1..Len(list) :
            list[i].id = id /\ \A j \in 1..(i - 1) : list[j].id # id
    ELSE 0

\* streams.filter(stream => stream.id !== id)
RECURSIVE FilterOut(_, _)
FilterOut(list, id) ==
    IF list = <<>> THEN <<>>
    ELSE IF Head(list).id = id THEN FilterOut(Tail(list), id)
         ELSE <<Head(list)>> \o FilterOut(Tail(list), id)

\* { ...a, ...b }
Spread(a, b) ==
    [f \in (DOMAIN a) \cup (DOMAIN b) |-> IF f \in DOMAIN b THEN b[f] ELSE a[f]]

\* truthiness of a string field
Truthy(u) == u # <<>>

\* data.f of a parsed request body: undefined (falsy, like '') when absent
Field(data, f) == IF f \in DOMAIN data THEN data[f] ELSE <<>>

\* Date.now(): time does not run backwards; two calls may see the same
\* millisecond.  The time read is the number of requests received so far.
Now == nextId + issued + 1

\* ------------------------------------------------------- store helpers
\* the body of updateStream after `await getAllStreams()`: the new file content
UpdatedList(list, id, body) ==
    LET index == FindIndex(list, id)
    IN IF index = 0 THEN list
       ELSE [list EXCEPT ![index] =
                Spread(Spread(list[index], body), [updatedAt |-> Now])]

\* STREAMS_FILE after updateStream: nothing is written when the id is not found
WrittenList(cur, list, id, body) ==
    IF FindIndex(list, id) = 0 THEN cur ELSE UpdatedList(list, id, body)

\* the values scriptContent embeds: input_url, then the two parts of
\* rtmp_url ("<rtmp>/<key>"), bitrate and resolution
ScriptOf(stream) ==
    <<Field(stream, "link1"), Field(stream, "rtmp"), Field(stream, "key"),
      Field(stream, "bitrate"), Field(stream, "resolution")>>
InputUrl(script) == script[1]

\* createStreamScript(stream): writes <stream.id>.sh
createStreamScript(sc, stream) == [sc EXCEPT ![stream.id] = File(ScriptOf(stream))]

\* the fields of a stream that its script embeds
ScriptFields == {"link1", "rtmp", "key", "bitrate", "resolution"}

\* streamData.link1 || streamData.rtmp || streamData.key || streamData.bitrate
\*   || streamData.resolution
TouchesScript(streamData) == \E f \in ScriptFields : Truthy(Field(streamData, f))

\* updateStream rewrites the script only when a script field of the body is truthy
UpdatedScripts(sc, list, id, body) ==
    LET index == FindIndex(list, id)
    IN IF index # 0 /\ TouchesScript(body)
       THEN createStreamScript(sc, Spread(list[index], body))
       ELSE sc

\* createLogFile(id): creates an empty file unless it exists
createLogFile(lg, id) == [lg EXCEPT ![id] = IF ~@.exists THEN File(<<>>) ELSE @]

\* appendToLog(id, entry): creates the file when missing, then appends one line
appendToLog(lg, id, entry) ==
    [lg EXCEPT ![id] = File(@.data \o <<entry>>)]

LogStarted == [type |-> "info", message |-> "Stream started"]
LogStopped == [type |-> "info", message |-> "Stream stopped"]
LogStopError == [type |-> "warning", message |-> "Error while stopping stream"]
LogStartError == [type |-> "error", message |-> "Failed to start stream"]

\* ------------------------------------------------------- process table
\* spawn('sh', [scriptPath, stream.link1, stream.rtmp]): one entry per launch.
\* The command line of the shell holds link1 (field link); the ffmpeg that its
\* loop runs holds the input_url of the script (field input).  sh: the retry
\* loop is alive; ff: "run", "term" (SIGTERM received, shutting down) or "none".
\* While the loop is alive its ffmpeg is taken to exist (the 1 s pause between
\* two runs is not a state of its own).  A missing script makes sh exit at
\* once, leaving no process.
Spawned(pr, sc, stream) ==
    IF ~sc[stream.id].exists THEN pr
    ELSE Append(pr, [sid |-> stream.id, link |-> stream.link1,
                     input |-> InputUrl(sc[stream.id].data), sh |-> TRUE, ff |-> "run",
                     redir |-> FALSE])

\* spawn('cmd.exe', ['/c', 'start', '/b', 'cmd', '/c', ffmpegCmd + ' > logPath 2>&1']):
\* ffmpeg is run once, with link1 on its command line and no retry loop around
\* it; redir: cmd has yet to open the log file for its `>` redirection
SpawnedCmd(pr, stream) ==
    Append(pr, [sid |-> stream.id, link |-> stream.link1, input |-> stream.link1,
                sh |-> FALSE, ff |-> "run", redir |-> TRUE])

MatchesSh(pattern, u) == u.sh /\ IsSubstr(pattern, u.link)
MatchesFf(pattern, u) == u.ff # "none" /\ IsSubstr(pattern, u.input)
Matched(pr, pattern) ==
    {i \in 1..Len(pr) : MatchesSh(pattern, pr[i]) \/ MatchesFf(pattern, pr[i])}

RECURSIVE Reap(_)
Reap(pr) ==
    IF pr = <<>> THEN <<>>
    ELSE IF ~Head(pr).sh /\ Head(pr).ff = "none" THEN Reap(Tail(pr))
         ELSE <<Head(pr)>> \o Reap(Tail(pr))

\* SIGTERM to every process whose command line contains the pattern
Signalled(pr, pattern) ==
    Reap([i \in 1..Len(pr) |->
            [pr[i] EXCEPT
                !.sh = IF MatchesSh(pattern, pr[i]) THEN FALSE ELSE @,
                !.ff = IF MatchesFf(pattern, pr[i]) /\ @ = "run" THEN "term" ELSE @]])

\* taskkill /F /T: every process whose command line contains the pattern is
\* ended at once
Killed(pr, pattern) ==
    Reap([i \in 1..Len(pr) |->
            [pr[i] EXCEPT
                !.sh = IF MatchesSh(pattern, pr[i]) THEN FALSE ELSE @,
                !.ff = IF MatchesFf(pattern, pr[i]) THEN "none" ELSE @]])

\* ------------------------------------------------------- calls
EmptyBody == [f \in {} |-> 0]
\* op, id, body: the call; pc: the await it is suspended at; snap: the value of
\* its last getAllStreams(); launched: it has called spawn; ret: its result;
\* at: the time at which the request was received
Idle ==
    [op |-> "idle", id |-> 0, pc |-> "idle", snap |-> <<>>, body |-> EmptyBody,
     launched |-> FALSE, ret |-> None, at |-> 0]

\* a slot is free when no call runs in it; it keeps the outcome of its last call
InFlight(c) == calls[c].pc \notin {"idle", "done"}
FreeSlot(c) == ~InFlight(c) /\ \A d \in 1..(c - 1) : InFlight(d)

NewCall(op, id, pc, body) ==
    [op |-> op, id |-> id, pc |-> pc, snap |-> streams, body |-> body,
     launched |-> FALSE, ret |-> None, at |-> Now]

Goto(c, pc) == [calls EXCEPT ![c].pc = pc, ![c].snap = <<>>]
Finish(c, ret) ==
    [calls EXCEPT ![c].pc = "done", ![c].ret = ret, ![c].snap = <<>>, ![c].body = EmptyBody]

KnownIds == 1..nextId

\* request bodies of PUT /api/streams/[id]: any JSON object; an id in a body
\* is one the client has seen
Bodies ==
    {[active |-> FALSE], [link1 |-> <<>>], [link1 |-> <<1, 2>>]}
        \cup {[id |-> i] : i \in KnownIds \ {1}}

\* a non-empty text value of a form field
Text == <<9>>

\* request bodies of POST /api/streams for the k-th stream: each required
\* field empty or filled in, one body without the name key, and one that also
\* carries the fields addStream sets itself
CreateBodies(k) ==
    {[name |-> n, link1 |-> l, key |-> ke, rtmp |-> r] :
        n \in {<<>>, Text}, l \in {<<>>, RequestLink(k)},
        ke \in {<<>>, Text}, r \in {<<>>, Text}}
    \cup {[link1 |-> RequestLink(k), key |-> Text, rtmp |-> Text]}
    \cup {[name |-> Text, link1 |-> RequestLink(k), key |-> Text, rtmp |-> Text,
            id |-> 1, active |-> TRUE, createdAt |-> 0, updatedAt |-> 0]}

\* the validation without its test of data.key
HasRequiredNoKey(data) ==
    /\ Truthy(Field(data, "name"))
    /\ Truthy(Field(data, "link1"))
    /\ Truthy(Field(data, "rtmp"))

\* `!data.name || !data.link1 || !data.key || !data.rtmp` is false
HasRequired(data) ==
    /\ Truthy(Field(data, "name"))
    /\ Truthy(Field(data, "link1"))
    /\ Truthy(Field(data, "key"))
    /\ Truthy(Field(data, "rtmp"))

DefaultBitrate == <<1000>>
DefaultResolution == <<1280, 720>>
Uncategorized == <<0>>
OrElse(u, d) == IF Truthy(u) THEN u ELSE d

\* streamData of POST: the body with defaults for the optional fields
WithDefaults(data) ==
    Spread(data, [bitrate |-> OrElse(Field(data, "bitrate"), DefaultBitrate),
                  resolution |-> OrElse(Field(data, "resolution"), DefaultResolution),
                  category1 |-> OrElse(Field(data, "category1"), Uncategorized)])

\* create requests received so far
Requested == nextId + Cardinality({d \in Slots : calls[d].pc = "add_write"})

\* POST /api/streams: validation (answer 400), then addStream up to its
\* first await
CallAdd(c, data) ==
    /\ FreeSlot(c)
    /\ Requested < MaxStreams
    /\ calls' = [calls EXCEPT ![c] =
                    IF HasRequired(data)
                    THEN NewCall("add", 0, "add_write", WithDefaults(data))
                    ELSE [NewCall("add", 0, "done", EmptyBody) EXCEPT
                             !.snap = <<>>, !.ret = "400"]]
    /\ UNCHANGED <<streams, scripts, logs, procs, nextId, issued>>
    /\ UNCHANGED sideVars

\* the record with the fields of the request written last
NewStreamBodyLast(streamData, id, now) ==
    Spread([id |-> id, active |-> FALSE, createdAt |-> now, updatedAt |-> now], streamData)

\* { ...streamData, id: crypto.randomUUID(), active: false, createdAt: now,
\*   updatedAt: now }
NewStream(streamData, id, now) ==
    Spread(streamData, [id |-> id, active |-> FALSE, createdAt |-> now, updatedAt |-> now])

\* addStream after `await getAllStreams()`; the finished call keeps its request
AddWrite(c) ==
    /\ calls[c].pc = "add_write"
    /\ LET newStream == NewStream(calls[c].body, nextId + 1, Now)
       IN /\ nextId' = nextId + 1
          /\ streams' = Append(calls[c].snap, newStream)
          /\ logs' = createLogFile(logs, newStream.id)
          /\ scripts' = createStreamScript(scripts, newStream)
          /\ calls' = [Finish(c, "stream") EXCEPT ![c].body = calls[c].body]
    /\ UNCHANGED <<procs, issued>>
    /\ UNCHANGED sideVars

\* PUT /api/streams/[id]: updateStream up to its first await
CallUpdate(c, id, body) ==
    /\ FreeSlot(c)
    /\ issued < MaxOps
    /\ issued' = issued + 1
    /\ calls' = [calls EXCEPT ![c] = NewCall("update", id, "upd_write", body)]
    /\ UNCHANGED <<streams, scripts, logs, procs, nextId>>
    /\ UNCHANGED sideVars

\* updateStream after `await getAllStreams()`
UpdateWrite(c) ==
    /\ calls[c].pc = "upd_write"
    /\ LET list == calls[c].snap
           id == calls[c].id
       IN IF FindIndex(list, id) = 0
          THEN /\ calls' = Finish(c, "undefined")
               /\ UNCHANGED <<streams, scripts>>
          ELSE /\ streams' = UpdatedList(list, id, calls[c].body)
               /\ scripts' = UpdatedScripts(scripts, list, id, calls[c].body)
               /\ calls' = Finish(c, "stream")
    /\ UNCHANGED <<logs, procs, nextId, issued>>
    /\ UNCHANGED sideVars

\* ------------------------------------------------------- startStream
\* POST control {action: 'start'}: startStream up to its first await
CallStart(c, id) ==
    /\ FreeSlot(c)
    /\ issued < MaxOps
    /\ issued' = issued + 1
    /\ calls' = [calls EXCEPT ![c] = NewCall("start", id, "start_find", EmptyBody)]
    /\ UNCHANGED <<streams, scripts, logs, procs, nextId>>
    /\ UNCHANGED sideVars

\* startStream without its early return
AlreadyActiveIgnored(stream) == FALSE

\* `if (stream.active)`: already running, no need to start again
AlreadyActive(stream) == stream.active

\* startStream from the result of getStreamById to the call of updateStream
StartCheck(c) ==
    /\ calls[c].pc = "start_find"
    /\ LET list == calls[c].snap
           id == calls[c].id
           index == FindIndex(list, id)
       IN IF index = 0
          THEN /\ calls' = Finish(c, "false")
               /\ UNCHANGED <<logs, procs>>
          ELSE IF AlreadyActive(list[index])
          THEN /\ calls' = Finish(c, "true")
               /\ UNCHANGED <<logs, procs>>
          ELSE \/ /\ procs' = IF platform = "win32" THEN SpawnedCmd(procs, list[index])
                             ELSE Spawned(procs, scripts, list[index])
                  /\ calls' = [calls EXCEPT ![c].pc = "start_write", ![c].snap = streams,
                                             ![c].launched = TRUE]
                  /\ UNCHANGED logs
               \/ \* the OS cannot create the process: spawn returns a child
                  \* without pid and reports the error later, as an event
                  /\ calls' = [calls EXCEPT ![c].pc = "start_write", ![c].snap = streams]
                  /\ UNCHANGED <<logs, procs>>
               \/ \* spawn throws: the catch block
                  /\ logs' = appendToLog(logs, id, LogStartError)
                  /\ calls' = Finish(c, "false")
                  /\ UNCHANGED procs
    /\ UNCHANGED <<streams, scripts, nextId, issued>>
    /\ UNCHANGED sideVars

\* updateStream(id, {active: true}) after its await
StartWrite(c) ==
    /\ calls[c].pc = "start_write"
    /\ streams' = WrittenList(streams, calls[c].snap, calls[c].id, [active |-> TRUE])
    /\ scripts' = UpdatedScripts(scripts, calls[c].snap, calls[c].id, [active |-> TRUE])
    /\ calls' = Goto(c, "start_log")
    /\ UNCHANGED <<logs, procs, nextId, issued>>
    /\ UNCHANGED sideVars

\* appendToLog 'Stream started' and return true
StartLog(c) ==
    /\ calls[c].pc = "start_log"
    /\ logs' = appendToLog(logs, calls[c].id, LogStarted)
    /\ calls' = Finish(c, "true")
    /\ UNCHANGED <<streams, scripts, procs, nextId, issued>>
    /\ UNCHANGED sideVars

\* ------------------------------------------------------- stopStream
\* what follows the return of stopStream in its caller
StopReturns(c, ret) ==
    IF calls[c].op = "stop" THEN Finish(c, ret)
    ELSE IF calls[c].op = "restart" THEN [calls EXCEPT ![c].pc = "sleep", ![c].snap = <<>>]
    ELSE [calls EXCEPT ![c].pc = "del_read", ![c].snap = <<>>]

CallStop(c, id) ==
    /\ FreeSlot(c)
    /\ issued < MaxOps
    /\ issued' = issued + 1
    /\ calls' = [calls EXCEPT ![c] = NewCall("stop", id, "stop_find", EmptyBody)]
    /\ UNCHANGED <<streams, scripts, logs, procs, nextId>>
    /\ UNCHANGED sideVars

\* stopStream from the result of getStreamById through the kill command
StopKill(c) ==
    /\ calls[c].pc = "stop_find"
    /\ LET list == calls[c].snap
           id == calls[c].id
           index == FindIndex(list, id)
       IN IF index = 0
          THEN /\ calls' = StopReturns(c, "false")
               /\ UNCHANGED <<logs, procs>>
          ELSE LET pattern == list[index].link1
               IN IF platform = "win32"
                  THEN \* the two taskkill commands: each may end the processes
                       \* its filter selects or none, and exit 0 or not
                       /\ procs' \in {procs, Killed(procs, pattern)}
                       /\ \/ /\ calls' = [calls EXCEPT ![c].pc = "stop_write",
                                                         ![c].snap = streams]
                             /\ UNCHANGED logs
                          \/ /\ logs' = appendToLog(logs, id, LogStopError)
                             /\ calls' = Goto(c, "stop_wread")
                  ELSE \/ \* pkill exits 0: some process matched and was signalled
                          /\ Matched(procs, pattern) # {}
                          /\ procs' = Signalled(procs, pattern)
                          /\ calls' = [calls EXCEPT ![c].pc = "stop_write",
                                                    ![c].snap = streams]
                          /\ UNCHANGED logs
                       \/ \* execSync throws: nothing matched, or the command failed
                          /\ procs' \in {procs, Signalled(procs, pattern)}
                          /\ logs' = appendToLog(logs, id, LogStopError)
                          /\ calls' = Goto(c, "stop_wread")
    /\ UNCHANGED <<streams, scripts, nextId, issued>>
    /\ UNCHANGED sideVars

\* updateStream(id, {active: false}) after its await
StopWrite(c) ==
    /\ calls[c].pc = "stop_write"
    /\ streams' = WrittenList(streams, calls[c].snap, calls[c].id, [active |-> FALSE])
    /\ scripts' = UpdatedScripts(scripts, calls[c].snap, calls[c].id, [active |-> FALSE])
    /\ calls' = Goto(c, "stop_log")
    /\ UNCHANGED <<logs, procs, nextId, issued>>
    /\ UNCHANGED sideVars

\* appendToLog 'Stream stopped' and return true
StopLog(c) ==
    /\ calls[c].pc = "stop_log"
    /\ logs' = appendToLog(logs, calls[c].id, LogStopped)
    /\ calls' = StopReturns(c, "true")
    /\ UNCHANGED <<streams, scripts, procs, nextId, issued>>
    /\ UNCHANGED sideVars

\* catch block: the call of updateStream after the warning was logged
StopWarnRead(c) ==
    /\ calls[c].pc = "stop_wread"
    /\ calls' = [calls EXCEPT ![c].pc = "stop_wwrite", ![c].snap = streams]
    /\ UNCHANGED <<streams, scripts, logs, procs, nextId, issued>>
    /\ UNCHANGED sideVars

\* the catch block, were it to report the failed termination to the caller
StopWarnWriteFailing(c) ==
    /\ calls[c].pc = "stop_wwrite"
    /\ streams' = WrittenList(streams, calls[c].snap, calls[c].id, [active |-> FALSE])
    /\ scripts' = UpdatedScripts(scripts, calls[c].snap, calls[c].id, [active |-> FALSE])
    /\ calls' = StopReturns(c, "false")
    /\ UNCHANGED <<logs, procs, nextId, issued>>
    /\ UNCHANGED sideVars

\* catch block: updateStream(id, {active: false}) after its await, return true
StopWarnWrite(c) ==
    /\ calls[c].pc = "stop_wwrite"
    /\ streams' = WrittenList(streams, calls[c].snap, calls[c].id, [active |-> FALSE])
    /\ scripts' = UpdatedScripts(scripts, calls[c].snap, calls[c].id, [active |-> FALSE])
    /\ calls' = StopReturns(c, "true")
    /\ UNCHANGED <<logs, procs, nextId, issued>>
    /\ UNCHANGED sideVars

\* ------------------------------------------------------- restartStream
CallRestart(c, id) ==
    /\ FreeSlot(c)
    /\ issued < MaxOps
    /\ issued' = issued + 1
    /\ calls' = [calls EXCEPT ![c] = NewCall("restart", id, "stop_find", EmptyBody)]
    /\ UNCHANGED <<streams, scripts, logs, procs, nextId>>
    /\ UNCHANGED sideVars

\* the 1000 ms timer fires: startStream is called
RestartWake(c) ==
    /\ calls[c].pc = "sleep"
    /\ calls' = [calls EXCEPT ![c].pc = "start_find", ![c].snap = streams]
    /\ UNCHANGED <<streams, scripts, logs, procs, nextId, issued>>
    /\ UNCHANGED sideVars

\* ------------------------------------------------------- deleteStream
CallDelete(c, id) ==
    /\ FreeSlot(c)
    /\ issued < MaxOps
    /\ issued' = issued + 1
    /\ calls' = [calls EXCEPT ![c] = NewCall("delete", id, "stop_find", EmptyBody)]
    /\ UNCHANGED <<streams, scripts, logs, procs, nextId>>
    /\ UNCHANGED sideVars

\* deleteStream after `await stopStream(id)`: the call of getAllStreams
DeleteRead(c) ==
    /\ calls[c].pc = "del_read"
    /\ calls' = [calls EXCEPT ![c].pc = "del_write", ![c].snap = streams]
    /\ UNCHANGED <<streams, scripts, logs, procs, nextId, issued>>
    /\ UNCHANGED sideVars

\* deleteStream after `await getAllStreams()`: filter, write, unlink
DeleteWrite(c) ==
    /\ calls[c].pc = "del_write"
    /\ LET list == calls[c].snap
           id == calls[c].id
           filteredStreams == FilterOut(list, id)
       IN IF Len(filteredStreams) = Len(list)
          THEN /\ calls' = Finish(c, "false")
               /\ UNCHANGED <<streams, scripts, logs>>
          ELSE /\ streams' = filteredStreams
               /\ scripts' = [scripts EXCEPT ![id] = NoFile]
               /\ logs' = [logs EXCEPT ![id] = NoFile]
               /\ calls' = Finish(c, "true")
    /\ UNCHANGED <<procs, nextId, issued>>
    /\ UNCHANGED sideVars

\* ------------------------------------------------------- operating system
\* a signalled ffmpeg finishes its shutdown; a retry loop that is still alive
\* runs ffmpeg again after its `sleep 1`
TermExit(i) ==
    /\ i \in 1..Len(procs)
    /\ procs[i].ff = "term"
    /\ procs' = Reap([procs EXCEPT ![i].ff = IF procs[i].sh THEN "run" ELSE "none"])
    /\ UNCHANGED <<streams, scripts, logs, calls, nextId, issued>>
    /\ UNCHANGED sideVars

\* cmd starts the command of a Windows launch: `> logPath` opens the log file
\* and truncates it, at some moment after spawn has returned
CmdOpensLog(i) ==
    /\ i \in 1..Len(procs)
    /\ procs[i].redir
    /\ procs' = [procs EXCEPT ![i].redir = FALSE]
    /\ logs' = [logs EXCEPT ![procs[i].sid] = File(<<>>)]
    /\ UNCHANGED <<streams, scripts, calls, nextId, issued>>
    /\ UNCHANGED sideVars

\* ------------------------------------------------------- getStreamLogs
\* Characters of a log file: "nl" is '\n', "sp" a blank, "a" and "b" are each
\* the complete JSON text of one record, "x" is any other character (ffmpeg
\* output).
Chars == {"nl", "sp", "a", "b", "x"}
JsonTexts == {"a", "b"}

\* data.split('\n')
RECURSIVE Split(_)
Split(s) ==
    IF s = <<>> THEN << <<>> >>
    ELSE LET r == Split(Tail(s))
         IN IF Head(s) = "nl" THEN << <<>> >> \o r
            ELSE << <<Head(s)>> \o Head(r) >> \o Tail(r)

\* String.prototype.trim
RECURSIVE TrimLeft(_)
TrimLeft(s) == IF s # <<>> /\ Head(s) = "sp" THEN TrimLeft(Tail(s)) ELSE s
RECURSIVE TrimRight(_)
TrimRight(s) ==
    IF s # <<>> /\ s[Len(s)] = "sp" THEN TrimRight(SubSeq(s, 1, Len(s) - 1)) ELSE s
Trim(s) == TrimRight(TrimLeft(s))

\* lines.filter(line => line.trim() !== '')
RECURSIVE NonBlank(_)
NonBlank(lines) ==
    IF lines = <<>> THEN <<>>
    ELSE IF Trim(Head(lines)) # <<>> THEN <<Head(lines)>> \o NonBlank(Tail(lines))
         ELSE NonBlank(Tail(lines))

\* JSON.parse(line) succeeds on one JSON text with optional blanks around it
Parses(line) == Len(Trim(line)) = 1 /\ Trim(line)[1] \in JsonTexts
JSONparse(line) == Trim(line)[1]

\* the loop with `logs.length <= limit` as its condition
RECURSIVE ParseLoopInclusive(_, _, _, _)
ParseLoopInclusive(lines, i, result, limit) ==
    IF i >= 1 /\ Len(result) <= limit
    THEN ParseLoopInclusive(lines, i - 1,
                   IF Parses(lines[i]) THEN Append(result, JSONparse(lines[i])) ELSE result,
                   limit)
    ELSE result

\* for (let i = lines.length - 1; i >= 0 && logs.length < limit; i--)
\* (i counts from 1 here)
RECURSIVE ParseLoop(_, _, _, _)
ParseLoop(lines, i, result, limit) ==
    IF i >= 1 /\ Len(result) < limit
    THEN ParseLoop(lines, i - 1,
                   IF Parses(lines[i]) THEN Append(result, JSONparse(lines[i])) ELSE result,
                   limit)
    ELSE result

getStreamLogs(file, limit) ==
    IF ~file.exists THEN <<>>
    ELSE LET lines == NonBlank(Split(file.data))
         IN ParseLoop(lines, Len(lines), <<>>, limit)

LogContents == UNION {[1..n -> Chars] : n \in 0..MaxLen}

\* GET /api/streams/[id]/logs?limit=N
GetLogs ==
    /\ ~logResult.done
    /\ logResult' = [done |-> TRUE, logs |-> getStreamLogs(logData, logLimit)]
    /\ UNCHANGED <<logData, logLimit>>
    /\ UNCHANGED storeVars
    /\ UNCHANGED <<platform, osProbes, reply, loop, toasts>>

\* the HTTP status the route answers a finished call with
Status(call) ==
    IF call.op = "add" THEN (IF call.ret = "400" THEN 400 ELSE 200)
    ELSE IF call.op = "update" THEN (IF call.ret = "undefined" THEN 404 ELSE 200)
    ELSE IF call.op = "delete" THEN (IF call.ret = "false" THEN 404 ELSE 200)
    ELSE 200

\* ------------------------------------------------------- read requests
\* One line of ffmpeg output in a log file; "s1" and "s2" are progress lines
\* ("frame=.. fps=1 .. bitrate=1kbits/s", and the same with 2), "x" is other
\* output.  Such a line is not JSON.
Raw(text) == [type |-> "raw", message |-> text]
IsRecord(line) == line.type # "raw"

RECURSIVE Reverse(_)
Reverse(s) == IF s = <<>> THEN <<>> ELSE Append(Reverse(Tail(s)), Head(s))
RECURSIVE SelectRecords(_)
SelectRecords(s) ==
    IF s = <<>> THEN <<>>
    ELSE IF IsRecord(Head(s)) THEN <<Head(s)>> \o SelectRecords(Tail(s))
         ELSE SelectRecords(Tail(s))
Take(s, n) == SubSeq(s, 1, IF n < Len(s) THEN n ELSE Len(s))

\* getStreamLogs on a log kept line by line: the records among the lines,
\* newest first, at most limit of them
ReadLogRecords(lg, id, limit) ==
    IF ~lg[id].exists THEN <<>>
    ELSE Take(SelectRecords(Reverse(lg[id].data)), limit)

DefaultLimit == 100   \* limit of GET logs without ?limit=
TailWindow == 20      \* lines of the log searched for progress output

\* logData.split('\n').slice(-20): every line written ends with '\n', so the
\* last element of the split is the empty string
LastLines(data) ==
    LET lines == Append(data, Raw(""))
        first == IF Len(lines) > TailWindow THEN Len(lines) - TailWindow + 1 ELSE 1
    IN SubSeq(lines, first, Len(lines))

HasStats(line) == line.type = "raw" /\ line.message \in {"s1", "s2"}
StatsValue(line) == IF line.message = "s1" THEN "1" ELSE "2"

\* lines.join('\n').match(/bitrate=\s*([0-9.]+)kbits\/s/): the first match
FirstStats(lines) ==
    IF \E i \in 1..Len(lines) : HasStats(lines[i])
    THEN StatsValue(lines[CHOOSE i \in 1..Len(lines) :
                            HasStats(lines[i]) /\ \A j \in 1..(i - 1) : ~HasStats(lines[j])])
    ELSE "N/A"

\* the output of `ps aux | grep "<link1>" | grep -v grep` (of wmic process
\* where "commandline like '%<link1>%'" on Windows): the processes whose
\* command line contains the pattern, in the order of the process table
RECURSIVE PsLines(_, _, _)
PsLines(pr, pattern, i) ==
    IF i > Len(pr) THEN <<>>
    ELSE (IF MatchesSh(pattern, pr[i]) THEN <<[launch |-> i, of |-> "sh"]>> ELSE <<>>)
         \o (IF MatchesFf(pattern, pr[i]) THEN <<[launch |-> i, of |-> "ffmpeg"]>> ELSE <<>>)
         \o PsLines(pr, pattern, i + 1)

\* getStreamProcessInfo(id): every failure of a probe command is caught and
\* answered with {running: false}
getStreamProcessInfo(list, pr, lg, id, probes) ==
    LET index == FindIndex(list, id)
    IN IF index = 0 \/ ~list[index].active THEN [running |-> FALSE]
       ELSE LET found == PsLines(pr, list[index].link1, 1)
            IN IF probes["ps"] = "throws" \/ found = <<>> THEN [running |-> FALSE]
               ELSE [running |-> TRUE, pid |-> found[1],
                     bitrate |-> IF lg[id].exists THEN FirstStats(LastLines(lg[id].data))
                                 ELSE "N/A",
                     fps |-> IF lg[id].exists THEN FirstStats(LastLines(lg[id].data))
                             ELSE "N/A"]

Respond(op, id, status, body) == [op |-> op, id |-> id, status |-> status, body |-> body]
NotFound == [error |-> "Stream not found"]

\* GET /api/streams/[id]
GetStream(id) ==
    /\ reply' = IF FindIndex(streams, id) = 0 THEN Respond("get", id, 404, NotFound)
                ELSE Respond("get", id, 200, streams[FindIndex(streams, id)])
    /\ UNCHANGED <<storeVars, logVars, envVars, loop, toasts>>

\* the process endpoint, were it to mark a stream whose process is gone inactive
GetProcessInfoMarking(id) ==
    /\ reply' = IF FindIndex(streams, id) = 0 THEN Respond("info", id, 404, NotFound)
                ELSE Respond("info", id, 200,
                             getStreamProcessInfo(streams, procs, logs, id, osProbes))
    /\ streams' = IF /\ FindIndex(streams, id) # 0
                     /\ streams[FindIndex(streams, id)].active
                     /\ PsLines(procs, streams[FindIndex(streams, id)].link1, 1) = <<>>
                  THEN UpdatedList(streams, id, [active |-> FALSE])
                  ELSE streams
    /\ UNCHANGED <<scripts, logs, procs, calls, nextId, issued, logVars, envVars, loop, toasts>>

\* GET /api/streams/[id]/control
GetProcessInfo(id) ==
    /\ reply' = IF FindIndex(streams, id) = 0 THEN Respond("info", id, 404, NotFound)
                ELSE Respond("info", id, 200,
                             getStreamProcessInfo(streams, procs, logs, id, osProbes))
    /\ UNCHANGED <<storeVars, logVars, envVars, loop, toasts>>

\* GET /api/streams/[id]/logs
FetchLogs(id) ==
    /\ reply' = Respond("logs", id, 200, [logs |-> ReadLogRecords(logs, id, DefaultLimit)])
    /\ UNCHANGED <<storeVars, logVars, envVars, loop, toasts>>

\* DELETE /api/streams/[id]/logs: clearStreamLogs
ClearLogs(id) ==
    /\ IF ~logs[id].exists
       THEN /\ reply' = Respond("clear", id, 500, [error |-> "Failed to clear logs"])
            /\ UNCHANGED logs
       ELSE /\ logs' = [logs EXCEPT ![id] = File(<<>>)]
            /\ reply' = Respond("clear", id, 200, [success |-> TRUE])
    /\ UNCHANGED <<streams, scripts, procs, calls, nextId, issued, logVars, envVars, loop, toasts>>

\* ------------------------------------------------------- dashboard
HealthLimit == 10     \* records getStreamStats reads per active stream

RECURSIVE SelectActive(_)
SelectActive(list) ==
    IF list = <<>> THEN <<>>
    ELSE IF Head(list).active THEN <<Head(list)>> \o SelectActive(Tail(list))
         ELSE SelectActive(Tail(list))

\* the health bucket of one active stream
HealthOf(lg, id) ==
    LET recent == ReadLogRecords(lg, id, HealthLimit)
    IN IF \E i \in 1..Len(recent) : recent[i].type = "error" THEN "error"
       ELSE IF \E i \in 1..Len(recent) : recent[i].type = "warning" THEN "warning"
       ELSE IF Len(recent) > 0 THEN "healthy"
       ELSE "unknown"

\* getStreamStats with the health loop run over every stream
getStreamStatsOverAll(list, lg) ==
    LET active == SelectActive(list)
        count(h) == Cardinality({i \in 1..Len(list) : HealthOf(lg, list[i].id) = h})
    IN [total |-> Len(list), active |-> Len(active), inactive |-> Len(list) - Len(active),
        health |-> [healthy |-> count("healthy"), warning |-> count("warning"),
                    error |-> count("error"), unknown |-> count("unknown")]]

getStreamStats(list, lg) ==
    LET active == SelectActive(list)
        count(h) == Cardinality({i \in 1..Len(active) : HealthOf(lg, active[i].id) = h})
    IN [total |-> Len(list), active |-> Len(active), inactive |-> Len(list) - Len(active),
        health |-> [healthy |-> count("healthy"), warning |-> count("warning"),
                    error |-> count("error"), unknown |-> count("unknown")]]

\* every stream of the model is in one category
getCategoryStats(list) ==
    IF list = <<>> THEN <<>>
    ELSE << [name |-> Uncategorized, total |-> Len(list),
             active |-> Len(SelectActive(list))] >>

\* the probe commands run by getSystemStats and getStreamProcessInfo; each one
\* succeeds ("ok"), prints something the code's pattern does not match
\* ("nomatch"), or makes execSync throw ("throws")
Probes == {"cpu", "mem", "disk", "uptime", "ps"}
AllOk == [p \in Probes |-> "ok"]
Platforms == {"linux", "darwin", "win32", "other"}

\* the commands of one try block, in the order they are run
ProbeOrder(plat) ==
    IF plat = "win32" THEN <<"cpu", "mem", "disk", "uptime">>
    ELSE IF plat \in {"linux", "darwin"} THEN <<"cpu", "mem", "disk">>
    ELSE <<>>

\* the command p of the try block is run and none before it has thrown
Reached(plat, probes, p) ==
    \E k \in 1..Len(ProbeOrder(plat)) :
        /\ ProbeOrder(plat)[k] = p
        /\ \A j \in 1..(k - 1) : probes[ProbeOrder(plat)[j]] # "throws"
Read(plat, probes, p) == Reached(plat, probes, p) /\ probes[p] = "ok"
\* the try block ran to its end
Completed(plat, probes) ==
    \A k \in 1..Len(ProbeOrder(plat)) : probes[ProbeOrder(plat)[k]] # "throws"

\* Math.round((used / total) * 100)
Percent(used, total) == IF total > 0 THEN (200 * used + total) \div (2 * total) ELSE 0

\* values a probe that succeeds reports
MemTotal == 8
MemUsed == 6
DiskTotal == 10
DiskUsed == 5

\* getSystemStats without the try blocks around the probe commands
getSystemStatsUnguarded(plat, probes) ==
    [threw |-> ~Completed(plat, probes),
     value |-> [cpu |-> "0 %",
                memory |-> [total |-> 0, used |-> 0, free |-> 0, percent |-> 0],
                disk |-> [total |-> 0, used |-> 0, free |-> 0, percent |-> 0],
                uptime |-> "Unknown"]]

\* getSystemStats(): threw tells whether an exception leaves the function
getSystemStats(plat, probes) ==
    LET os == plat = "other"
        mem == os \/ Read(plat, probes, "mem")
        disk == Read(plat, probes, "disk")
        memTotal == IF mem THEN MemTotal ELSE 0
        memUsed == IF mem THEN MemUsed ELSE 0
        diskTotal == IF disk THEN DiskTotal ELSE 0
        diskUsed == IF disk THEN DiskUsed ELSE 0
    IN [threw |-> FALSE,
        value |->
          [cpu |-> IF os \/ Read(plat, probes, "cpu") THEN "5 %" ELSE "0 %",
           memory |-> [total |-> memTotal, used |-> memUsed, free |-> memTotal - memUsed,
                       percent |-> Percent(memUsed, memTotal)],
           disk |-> [total |-> diskTotal, used |-> diskUsed, free |-> diskTotal - diskUsed,
                     percent |-> Percent(diskUsed, diskTotal)],
           uptime |-> IF plat = "win32" /\ Read(plat, probes, "uptime") THEN "since"
                      ELSE IF Completed(plat, probes) THEN "up"
                      ELSE ""]]

\* GET /api/streams
GetDashboard ==
    /\ LET systemStats == getSystemStats(platform, osProbes)
       IN reply' = IF systemStats.threw
                   THEN Respond("dashboard", 0, 500, [error |-> "Internal Server Error"])
                   ELSE Respond("dashboard", 0, 200,
                                [streams |-> streams,
                                 stats |-> getStreamStats(streams, logs),
                                 systemStats |-> systemStats.value,
                                 categories |-> getCategoryStats(streams)])
    /\ UNCHANGED <<storeVars, logVars, envVars, loop, toasts>>

\* ------------------------------------------------------- toasts
\* ToastProvider: list is the `toasts` state, newest first; timers are the
\* pending setTimeout callbacks of dismissToast, which all have the same delay
\* and so fire in the order they were set; op is the last call; calls counts
\* the calls (the value of Date.now()); uuids counts crypto.randomUUID().
TOAST_LIMIT == 5
MaxGiven == 2        \* ids that callers pass to addToast
MaxToastCalls == 6   \* calls of addToast, updateToast and dismissToast

GivenIds == 1..MaxGiven
\* a toast passed without id gets a random one, different from every other id
RandomId(n) == MaxGiven + n

NoToasts == [list |-> <<>>, timers |-> <<>>, op |-> "none", calls |-> 0, uuids |-> 0]

ToastIds(list) == {list[i].id : i \in 1..Len(list)}

\* prevToasts.filter((t) => t.id !== id)
RECURSIVE WithoutToast(_, _)
WithoutToast(list, id) ==
    IF list = <<>> THEN <<>>
    ELSE IF Head(list).id = id THEN WithoutToast(Tail(list), id)
         ELSE <<Head(list)>> \o WithoutToast(Tail(list), id)

\* addToast(toast); given = 0 stands for a toast without id
addToast(given) ==
    /\ toasts.calls < MaxToastCalls
    /\ LET newToast == [id |-> IF given # 0 THEN given ELSE RandomId(toasts.uuids + 1),
                        open |-> TRUE, createdAt |-> toasts.calls + 1, title |-> "t"]
       IN toasts' = [list |-> Take(<<newToast>> \o WithoutToast(toasts.list, given),
                                   TOAST_LIMIT),
                     timers |-> toasts.timers, op |-> "add", calls |-> toasts.calls + 1,
                     uuids |-> IF given # 0 THEN toasts.uuids ELSE toasts.uuids + 1]
    /\ UNCHANGED <<storeVars, logVars, envVars, reply, loop>>

\* dismissToast(id): closes the toast and sets the removal timer
dismissToast(id) ==
    /\ toasts.calls < MaxToastCalls
    /\ toasts' = [toasts EXCEPT
                    !.list = [i \in 1..Len(@) |->
                                IF @[i].id = id THEN [@[i] EXCEPT !.open = FALSE] ELSE @[i]],
                    !.timers = Append(@, id), !.op = "dismiss", !.calls = @ + 1]
    /\ UNCHANGED <<storeVars, logVars, envVars, reply, loop>>

\* the second argument of updateToast, a Partial<ToastProps>: a new title or
\* a new id
ToastChanges == {[title |-> "u"]} \cup {[id |-> i] : i \in GivenIds}

\* updateToast(id, toast)
updateToast(id, toast) ==
    /\ toasts.calls < MaxToastCalls
    /\ toasts' = [toasts EXCEPT
                    !.list = [i \in 1..Len(@) |->
                                IF @[i].id = id THEN Spread(@[i], toast) ELSE @[i]],
                    !.op = "update", !.calls = @ + 1]
    /\ UNCHANGED <<storeVars, logVars, envVars, reply, loop>>

\* TOAST_REMOVE_DELAY after a dismissToast(id): the toast with that id is removed
RemoveTimer ==
    /\ toasts.timers # <<>>
    /\ toasts' = [toasts EXCEPT
                    !.list = WithoutToast(@, Head(toasts.timers)),
                    !.timers = Tail(@), !.op = "timer"]
    /\ UNCHANGED <<storeVars, logVars, envVars, reply, loop>>

NoReply == [op |-> "none", id |-> 0, status |-> 0, body |-> EmptyBody]
NoLoop == [pc |-> "none"]

Init ==
    /\ streams = <<>>
    /\ scripts = [i \in Ids |-> NoFile]
    /\ logs = [i \in Ids |-> NoFile]
    /\ procs = <<>>
    /\ calls = [c \in Slots |-> Idle]
    /\ nextId = 0
    /\ issued = 0
    /\ logData = NoFile
    /\ logLimit = 0
    /\ logResult = [done |-> FALSE, logs |-> <<>>]
    /\ platform = "linux"
    /\ osProbes = AllOk
    /\ reply = NoReply
    /\ loop = NoLoop
    /\ toasts = NoToasts

\* requests are handled as they arrive: calls overlap at their awaits
Next ==
    \/ \E c \in Slots, data \in CreateBodies(Requested + 1) : CallAdd(c, data)
    \/ \E c \in Slots : AddWrite(c)
    \/ \E c \in Slots, id \in KnownIds, b \in Bodies : CallUpdate(c, id, b)
    \/ \E c \in Slots : UpdateWrite(c)
    \/ \E c \in Slots, id \in KnownIds : CallStart(c, id)
    \/ \E c \in Slots : StartCheck(c)
    \/ \E c \in Slots : StartWrite(c)
    \/ \E c \in Slots : StartLog(c)
    \/ \E c \in Slots, id \in KnownIds : CallStop(c, id)
    \/ \E c \in Slots : StopKill(c)
    \/ \E c \in Slots : StopWrite(c)
    \/ \E c \in Slots : StopLog(c)
    \/ \E c \in Slots : StopWarnRead(c)
    \/ \E c \in Slots : StopWarnWrite(c)
    \/ \E c \in Slots, id \in KnownIds : CallRestart(c, id)
    \/ \E c \in Slots : RestartWake(c)
    \/ \E c \in Slots, id \in KnownIds : CallDelete(c, id)
    \/ \E c \in Slots : DeleteRead(c)
    \/ \E c \in Slots : DeleteWrite(c)
    \/ \E i \in 1..Len(procs) : TermExit(i)

Spec == Init /\ [][Next]_vars

\* one request at a time: a call is issued only after the previous one returned
NextSeq ==
    \/ \E c \in SeqSlots, data \in CreateBodies(Requested + 1) : CallAdd(c, data)
    \/ \E c \in SeqSlots : AddWrite(c)
    \/ \E c \in SeqSlots, id \in KnownIds, b \in Bodies : CallUpdate(c, id, b)
    \/ \E c \in SeqSlots : UpdateWrite(c)
    \/ \E c \in SeqSlots, id \in KnownIds : CallStart(c, id)
    \/ \E c \in SeqSlots : StartCheck(c)
    \/ \E c \in SeqSlots : StartWrite(c)
    \/ \E c \in SeqSlots : StartLog(c)
    \/ \E c \in SeqSlots, id \in KnownIds : CallStop(c, id)
    \/ \E c \in SeqSlots : StopKill(c)
    \/ \E c \in SeqSlots : StopWrite(c)
    \/ \E c \in SeqSlots : StopLog(c)
    \/ \E c \in SeqSlots : StopWarnRead(c)
    \/ \E c \in SeqSlots : StopWarnWrite(c)
    \/ \E c \in SeqSlots, id \in KnownIds : CallRestart(c, id)
    \/ \E c \in SeqSlots : RestartWake(c)
    \/ \E c \in SeqSlots, id \in KnownIds : CallDelete(c, id)
    \/ \E c \in SeqSlots : DeleteRead(c)
    \/ \E c \in SeqSlots : DeleteWrite(c)
    \/ \E i \in 1..Len(procs) : TermExit(i)

SpecSeq == Init /\ [][NextSeq]_vars

\* one request at a time, on Linux and on Windows
InitPlat ==
    /\ streams = <<>>
    /\ scripts = [i \in Ids |-> NoFile]
    /\ logs = [i \in Ids |-> NoFile]
    /\ procs = <<>>
    /\ calls = [c \in Slots |-> Idle]
    /\ nextId = 0
    /\ issued = 0
    /\ logData = NoFile
    /\ logLimit = 0
    /\ logResult = [done |-> FALSE, logs |-> <<>>]
    /\ platform \in {"linux", "win32"}
    /\ osProbes = AllOk
    /\ reply = NoReply
    /\ loop = NoLoop
    /\ toasts = NoToasts

NextPlat ==
    \/ NextSeq
    \/ \E i \in 1..Len(procs) : CmdOpensLog(i)

SpecPlat == InitPlat /\ [][NextPlat]_vars

\* streams are created, started, stopped and restarted one request at a time,
\* on Linux and on Windows
NextControl ==
    \/ \E c \in SeqSlots, data \in CreateBodies(Requested + 1) : CallAdd(c, data)
    \/ \E c \in SeqSlots : AddWrite(c)
    \/ \E c \in SeqSlots, id \in KnownIds : CallStart(c, id)
    \/ \E c \in SeqSlots : StartCheck(c)
    \/ \E c \in SeqSlots : StartWrite(c)
    \/ \E c \in SeqSlots : StartLog(c)
    \/ \E c \in SeqSlots, id \in KnownIds : CallStop(c, id)
    \/ \E c \in SeqSlots : StopKill(c)
    \/ \E c \in SeqSlots : StopWrite(c)
    \/ \E c \in SeqSlots : StopLog(c)
    \/ \E c \in SeqSlots : StopWarnRead(c)
    \/ \E c \in SeqSlots : StopWarnWrite(c)
    \/ \E c \in SeqSlots, id \in KnownIds : CallRestart(c, id)
    \/ \E c \in SeqSlots : RestartWake(c)
    \/ \E i \in 1..Len(procs) : TermExit(i)
    \/ \E i \in 1..Len(procs) : CmdOpensLog(i)

SpecControl == InitPlat /\ [][NextControl]_vars

\* request bodies of PUT that edit the fields the script embeds: one field
\* set to a new value or emptied, and one field emptied with another one set
Edited == <<7>>
EditBodies ==
    {[f \in {g} |-> v] : g \in ScriptFields, v \in {<<>>, Edited}}
        \cup {[link1 |-> Edited, key |-> <<>>], [bitrate |-> <<>>, resolution |-> Edited]}

\* streams are created and edited, one request at a time
NextEdit ==
    \/ \E c \in SeqSlots, data \in CreateBodies(Requested + 1) : CallAdd(c, data)
    \/ \E c \in SeqSlots : AddWrite(c)
    \/ \E c \in SeqSlots, id \in KnownIds, b \in EditBodies : CallUpdate(c, id, b)
    \/ \E c \in SeqSlots : UpdateWrite(c)

SpecEdit == Init /\ [][NextEdit]_vars

\* the calls of the toast context, on the ids given by callers and those in
\* the list, and the removal timers
NextToast ==
    \/ \E given \in GivenIds \cup {0} : addToast(given)
    \/ \E id \in GivenIds \cup ToastIds(toasts.list) : dismissToast(id)
    \/ \E id \in GivenIds \cup ToastIds(toasts.list), t \in ToastChanges : updateToast(id, t)
    \/ RemoveTimer

SpecToast == Init /\ [][NextToast]_vars

\* getStreamLogs applied to every log file of at most MaxLen characters
InitLogs ==
    /\ streams = <<>>
    /\ scripts = [i \in Ids |-> NoFile]
    /\ logs = [i \in Ids |-> NoFile]
    /\ procs = <<>>
    /\ calls = [c \in Slots |-> Idle]
    /\ nextId = 0
    /\ issued = 0
    /\ logData \in {NoFile} \cup {File(d) : d \in LogContents}
    /\ logLimit \in 0..MaxLimit
    /\ logResult = [done |-> FALSE, logs |-> <<>>]
    /\ platform = "linux"
    /\ osProbes = AllOk
    /\ reply = NoReply
    /\ loop = NoLoop
    /\ toasts = NoToasts

NextLogs == GetLogs

SpecLogs == InitLogs /\ [][NextLogs]_vars

\* the requests that change the store one at a time; a read request may name
\* any id and is answered at any moment
NextReads ==
    \/ NextSeq
    \/ \E id \in Ids : GetStream(id)
    \/ \E id \in Ids : GetProcessInfo(id)
    \/ \E id \in Ids : FetchLogs(id)
    \/ \E id \in Ids : ClearLogs(id)
    \/ GetDashboard

SpecReads == Init /\ [][NextReads]_vars

\* streams are created, started, stopped and restarted one request at a time,
\* and their process information is read
NextProbe ==
    \/ \E c \in SeqSlots, data \in CreateBodies(Requested + 1) : CallAdd(c, data)
    \/ \E c \in SeqSlots : AddWrite(c)
    \/ \E c \in SeqSlots, id \in KnownIds : CallStart(c, id)
    \/ \E c \in SeqSlots : StartCheck(c)
    \/ \E c \in SeqSlots : StartWrite(c)
    \/ \E c \in SeqSlots : StartLog(c)
    \/ \E c \in SeqSlots, id \in KnownIds : CallStop(c, id)
    \/ \E c \in SeqSlots : StopKill(c)
    \/ \E c \in SeqSlots : StopWrite(c)
    \/ \E c \in SeqSlots : StopLog(c)
    \/ \E c \in SeqSlots : StopWarnRead(c)
    \/ \E c \in SeqSlots : StopWarnWrite(c)
    \/ \E c \in SeqSlots, id \in KnownIds : CallRestart(c, id)
    \/ \E c \in SeqSlots : RestartWake(c)
    \/ \E i \in 1..Len(procs) : TermExit(i)
    \/ \E id \in Ids : GetProcessInfo(id)

SpecProbe == Init /\ [][NextProbe]_vars

\* a created and started stream is started, stopped and restarted one request
\* at a time; the metrics are sampled between the requests and between the
\* steps of a control operation
NextSample ==
    \/ \E c \in SeqSlots, id \in KnownIds : CallStart(c, id)
    \/ \E c \in SeqSlots : StartCheck(c)
    \/ \E c \in SeqSlots : StartWrite(c)
    \/ \E c \in SeqSlots : StartLog(c)
    \/ \E c \in SeqSlots, id \in KnownIds : CallStop(c, id)
    \/ \E c \in SeqSlots : StopKill(c)
    \/ \E c \in SeqSlots : StopWrite(c)
    \/ \E c \in SeqSlots : StopLog(c)
    \/ \E c \in SeqSlots : StopWarnRead(c)
    \/ \E c \in SeqSlots : StopWarnWrite(c)
    \/ \E c \in SeqSlots, id \in KnownIds : CallRestart(c, id)
    \/ \E c \in SeqSlots : RestartWake(c)
    \/ \E i \in 1..Len(procs) : TermExit(i)
    \/ \E id \in KnownIds : GetProcessInfo(id)
    \/ GetDashboard

\* The store after POST /api/streams and POST control {action: 'start'} for
\* the stream created: one active stream and its process.
FirstBody == [name |-> Text, link1 |-> RequestLink(1), key |-> Text, rtmp |-> Text]
StartedStream ==
    Spread(WithDefaults(FirstBody),
           [id |-> 1, active |-> TRUE, createdAt |-> 1, updatedAt |-> 3])
\* the script written when the stream was created
StartedScript == File(ScriptOf(StartedStream))
StartedProcs == Spawned(<<>>, [i \in Ids |-> StartedScript], StartedStream)
StartedCalls ==
    [c \in Slots |->
        IF c = 1 THEN [op |-> "start", id |-> 1, pc |-> "done", snap |-> <<>>,
                       body |-> EmptyBody, launched |-> TRUE, ret |-> "true", at |-> 2]
        ELSE Idle]

\* The store after POST /api/streams: one stream, not started.
CreatedStream == NewStream(WithDefaults(FirstBody), 1, 1)
CreatedCalls ==
    [c \in Slots |->
        IF c = 1 THEN [op |-> "add", id |-> 0, pc |-> "done", snap |-> <<>>,
                       body |-> WithDefaults(FirstBody), launched |-> FALSE,
                       ret |-> "stream", at |-> 1]
        ELSE Idle]

\* a stream was created; control and delete requests for it are handled as
\* they arrive, calls overlap
InitOverlap ==
    /\ streams = <<CreatedStream>>
    /\ scripts = [i \in Ids |-> IF i = 1 THEN StartedScript ELSE NoFile]
    /\ logs = [i \in Ids |-> IF i = 1 THEN File(<<>>) ELSE NoFile]
    /\ procs = <<>>
    /\ calls = CreatedCalls
    /\ nextId = 1
    /\ issued = 0
    /\ logData = NoFile
    /\ logLimit = 0
    /\ logResult = [done |-> FALSE, logs |-> <<>>]
    /\ platform = "linux"
    /\ osProbes = AllOk
    /\ reply = NoReply
    /\ loop = NoLoop
    /\ toasts = NoToasts

NextOverlap ==
    \/ \E c \in Slots, id \in KnownIds : CallStart(c, id)
    \/ \E c \in Slots : StartCheck(c)
    \/ \E c \in Slots : StartWrite(c)
    \/ \E c \in Slots : StartLog(c)
    \/ \E c \in Slots, id \in KnownIds : CallStop(c, id)
    \/ \E c \in Slots : StopKill(c)
    \/ \E c \in Slots : StopWrite(c)
    \/ \E c \in Slots : StopLog(c)
    \/ \E c \in Slots : StopWarnRead(c)
    \/ \E c \in Slots : StopWarnWrite(c)
    \/ \E c \in Slots, id \in KnownIds : CallRestart(c, id)
    \/ \E c \in Slots : RestartWake(c)
    \/ \E c \in Slots, id \in KnownIds : CallDelete(c, id)
    \/ \E c \in Slots : DeleteRead(c)
    \/ \E c \in Slots : DeleteWrite(c)
    \/ \E i \in 1..Len(procs) : TermExit(i)

SpecOverlap == InitOverlap /\ [][NextOverlap]_vars

\* a stream was created and started; its process is alive or has gone
InitSample ==
    /\ streams = <<StartedStream>>
    /\ scripts = [i \in Ids |-> IF i = 1 THEN StartedScript ELSE NoFile]
    /\ logs = [i \in Ids |-> IF i = 1 THEN File(<<LogStarted>>) ELSE NoFile]
    /\ procs \in {StartedProcs, <<>>}
    /\ calls = StartedCalls
    /\ nextId = 1
    /\ issued = 1
    /\ logData = NoFile
    /\ logLimit = 0
    /\ logResult = [done |-> FALSE, logs |-> <<>>]
    /\ platform = "linux"
    /\ osProbes = AllOk
    /\ reply = NoReply
    /\ loop = NoLoop
    /\ toasts = NoToasts

SpecSample == InitSample /\ [][NextSample]_vars

\* the outcomes of the probe commands
Outcomes(p) == IF p = "ps" THEN {"ok", "throws"} ELSE {"ok", "nomatch", "throws"}

\* the read requests on every platform and with every outcome of the probe
\* commands: on an empty store, and after a stream was created and started,
\* with its process alive or gone
InitStats ==
    /\ \E started \in BOOLEAN :
          /\ streams = IF started THEN <<StartedStream>> ELSE <<>>
          /\ scripts = [i \in Ids |-> IF started /\ i = 1 THEN StartedScript ELSE NoFile]
          /\ logs = [i \in Ids |-> IF started /\ i = 1 THEN File(<<LogStarted>>) ELSE NoFile]
          /\ procs \in IF started THEN {StartedProcs, <<>>} ELSE {<<>>}
          /\ calls = IF started THEN StartedCalls ELSE [c \in Slots |-> Idle]
          /\ nextId = IF started THEN 1 ELSE 0
          /\ issued = IF started THEN 1 ELSE 0
    /\ logData = NoFile
    /\ logLimit = 0
    /\ logResult = [done |-> FALSE, logs |-> <<>>]
    /\ platform \in Platforms
    /\ osProbes \in {f \in [Probes -> {"ok", "nomatch", "throws"}] :
                        \A p \in Probes : f[p] \in Outcomes(p)}
    /\ reply = NoReply
    /\ loop = NoLoop
    /\ toasts = NoToasts

NextStats ==
    \/ GetDashboard
    \/ \E id \in Ids : GetProcessInfo(id)

SpecStats == InitStats /\ [][NextStats]_vars

\* The dashboard on every small store: up to MaxStreams streams, each active
\* or not, each with a log of up to MaxLines lines (records of every type and
\* ffmpeg output); no request is in progress.
MaxLines == 1
LogLines == {LogStarted, LogStopError, LogStartError, Raw("x")}
LogFiles == {File(d) : d \in UNION {[1..n -> LogLines] : n \in 0..MaxLines}}
StoredStream(i, a) ==
    Spread(WithDefaults([FirstBody EXCEPT !.link1 = RequestLink(i)]),
           [id |-> i, active |-> a, createdAt |-> i, updatedAt |-> i])

InitHealth ==
    /\ \E n \in 0..MaxStreams, act \in [Ids -> BOOLEAN] :
          /\ \A i \in Ids : i > n => ~act[i]
          /\ streams = [i \in 1..n |-> StoredStream(i, act[i])]
          /\ scripts = [i \in Ids |-> IF i <= n THEN File(ScriptOf(StoredStream(i, act[i])))
                                      ELSE NoFile]
          /\ logs \in {lg \in [Ids -> LogFiles \cup {NoFile}] :
                          \A i \in Ids : lg[i].exists <=> i <= n}
          /\ nextId = n
    /\ procs = <<>>
    /\ calls = [c \in Slots |-> Idle]
    /\ issued = 0
    /\ logData = NoFile
    /\ logLimit = 0
    /\ logResult = [done |-> FALSE, logs |-> <<>>]
    /\ platform = "linux"
    /\ osProbes = AllOk
    /\ reply = NoReply
    /\ loop = NoLoop
    /\ toasts = NoToasts

NextHealth == GetDashboard

SpecHealth == InitHealth /\ [][NextHealth]_vars

\* ffmpeg output in the log of the started stream: up to MaxEdge lines, then
\* up to MaxFill lines without progress data, then up to MaxEdge lines
MaxEdge == 2
MaxFill == 20
EdgeLines == UNION {[1..n -> {Raw("s1"), Raw("s2"), Raw("x")}] : n \in 0..MaxEdge}
Filler(k) == [i \in 1..k |-> Raw("x")]

InitInfo ==
    /\ streams = <<StartedStream>>
    /\ scripts = [i \in Ids |-> IF i = 1 THEN StartedScript ELSE NoFile]
    /\ \E head \in EdgeLines, tail \in EdgeLines, k \in 0..MaxFill :
          logs = [i \in Ids |-> IF i = 1
                                THEN File(<<LogStarted>> \o head \o Filler(k) \o tail)
                                ELSE NoFile]
    /\ procs = StartedProcs
    /\ calls = StartedCalls
    /\ nextId = 1
    /\ issued = 1
    /\ logData = NoFile
    /\ logLimit = 0
    /\ logResult = [done |-> FALSE, logs |-> <<>>]
    /\ platform \in {"linux", "win32"}
    /\ osProbes = AllOk
    /\ reply = NoReply
    /\ loop = NoLoop
    /\ toasts = NoToasts

NextInfo == \E id \in Ids : GetProcessInfo(id)

SpecInfo == InitInfo /\ [][NextInfo]_vars

\* ------------------------------------------------------- retry loop
\* The supervision of one started transcoder, with time in seconds.  On
\* Linux/Mac startStream runs the stream script, whose `while true` loop runs
\* ffmpeg, sleeps and runs it again; on Windows it runs ffmpeg once through
\* cmd.exe, with no loop.
MaxAttempts == 5    \* launches of ffmpeg followed
MaxTime == 8        \* seconds followed
RetryDelay == 1     \* `sleep 1`

\* pc: what the launch is doing; sup: a retry loop exists; attempts: launches
\* of ffmpeg so far; delay: seconds between the last exit and the last launch;
\* wait: seconds of the current sleep still to go; slept: seconds of it gone
StartedLoop(plat) ==
    [pc |-> "running", sup |-> plat # "win32", attempts |-> 1, delay |-> 0,
     wait |-> 0, slept |-> 0, clock |-> 0]

\* ffmpeg exits by itself (input lost, output refused, crash)
FfmpegExit ==
    /\ loop.pc = "running"
    /\ loop' = IF loop.sup
               THEN [loop EXCEPT !.pc = "sleeping", !.wait = RetryDelay, !.slept = 0]
               ELSE [loop EXCEPT !.pc = "gone"]
    /\ UNCHANGED <<storeVars, logVars, envVars, reply, toasts>>

\* one second passes
Tick ==
    /\ loop.pc \in {"running", "sleeping"}
    /\ loop.pc = "sleeping" => loop.wait > 0
    /\ loop.clock < MaxTime
    /\ loop' = IF loop.pc = "sleeping"
               THEN [loop EXCEPT !.clock = @ + 1, !.wait = @ - 1, !.slept = @ + 1]
               ELSE [loop EXCEPT !.clock = @ + 1]
    /\ UNCHANGED <<storeVars, logVars, envVars, reply, toasts>>

\* the sleep is over: the loop runs ffmpeg again
Relaunch ==
    /\ loop.pc = "sleeping" /\ loop.wait = 0
    /\ loop.attempts < MaxAttempts
    /\ loop' = [loop EXCEPT !.pc = "running", !.attempts = @ + 1, !.delay = loop.slept]
    /\ UNCHANGED <<storeVars, logVars, envVars, reply, toasts>>

\* stopStream: the kill command ends the loop and ffmpeg
LoopKill ==
    /\ loop.pc \in {"running", "sleeping"}
    /\ loop' = [loop EXCEPT !.pc = "stopped", !.sup = FALSE]
    /\ UNCHANGED <<storeVars, logVars, envVars, reply, toasts>>

InitLoop ==
    /\ streams = <<StartedStream>>
    /\ scripts = [i \in Ids |-> IF i = 1 THEN StartedScript ELSE NoFile]
    /\ logs = [i \in Ids |-> IF i = 1 THEN File(<<LogStarted>>) ELSE NoFile]
    /\ procs = StartedProcs
    /\ calls = StartedCalls
    /\ nextId = 1
    /\ issued = 1
    /\ logData = NoFile
    /\ logLimit = 0
    /\ logResult = [done |-> FALSE, logs |-> <<>>]
    /\ platform \in {"linux", "darwin", "win32"}
    /\ osProbes = AllOk
    /\ reply = NoReply
    /\ loop = StartedLoop(platform)
    /\ toasts = NoToasts

NextLoop ==
    \/ FfmpegExit
    \/ Tick
    \/ Relaunch
    \/ LoopKill

SpecLoop == InitLoop /\ [][NextLoop]_vars

\* ------------------------------------------------------- properties
Stored(id) == FindIndex(streams, id) # 0
StreamOf(list, id) == list[FindIndex(list, id)]

\* the launches of stream id that still have a process, and those whose
\* ffmpeg exists (running, or shutting down after SIGTERM)
Launches(pr, id) == {i \in 1..Len(pr) : pr[i].sid = id}
LiveTranscoders(pr, id) == {i \in Launches(pr, id) : pr[i].ff # "none"}
Alive(pr, id) == Launches(pr, id) # {}

Quiescent == \A c \in Slots : ~InFlight(c)
ControlOps == {"start", "stop", "restart"}

\* slot c takes a step
Steps(c) == calls'[c] # calls[c]

\* C1: in every reachable state at most one live transcoder process exists
\* for each stream id.
OneTranscoderPerStream ==
    \A id \in Ids : Cardinality(LiveTranscoders(procs, id)) <= 1

\* C2: restartStream launches the new process only after the previous process
\* of the stream has exited.
RestartLaunchesAfterExit ==
    [][\A c \in Slots :
        (calls[c].op = "restart" /\ calls[c].pc = "start_find" /\ calls'[c].launched)
            => ~Alive(procs, calls[c].id)]_vars

\* C3: of two concurrent startStream calls for the same stopped stream exactly
\* one succeeds and launches; the other fails and launches nothing.
ConcurrentStartOneWins ==
    \A c, d \in Slots :
        (/\ c # d
         /\ calls[c].op = "start" /\ calls[d].op = "start"
         /\ calls[c].id = calls[d].id
         /\ calls[c].pc = "done" /\ calls[d].pc = "done"
         /\ calls[c].launched)
            => calls[d].ret = "false" /\ ~calls[d].launched

\* C4: control operations for the same stream id are serialized: none begins
\* while another one for that id is in progress, and concurrent restarts
\* launch the transcoder only once.
ControlSerialized ==
    \A c, d \in Slots :
        (/\ c # d
         /\ calls[c].op \in ControlOps /\ calls[d].op \in ControlOps
         /\ calls[c].id = calls[d].id)
            => /\ ~(InFlight(c) /\ InFlight(d))
               /\ ~(calls[c].op = "restart" /\ calls[d].op = "restart"
                      /\ calls[c].launched /\ calls[d].launched)

\* C5: when a stopStream call on a stored stream returns (no other call being
\* in progress), the stream is inactive and no process launched for it, neither
\* ffmpeg nor its retry loop, is alive.
StopLeavesNoProcess ==
    [][\A c \in Slots :
        (/\ calls[c].op = "stop" /\ InFlight(c) /\ calls'[c].pc = "done"
         /\ \A d \in Slots \ {c} : ~InFlight(d)
         /\ FindIndex(streams', calls[c].id) # 0)
            => /\ ~StreamOf(streams', calls[c].id).active
               /\ ~Alive(procs', calls[c].id)]_vars

\* C6: when deleteStream returns true, no process of the stream is alive: the
\* script and the log are not removed while a process of the stream exists.
DeleteAfterProcessExit ==
    [][\A c \in Slots :
        (calls[c].op = "delete" /\ calls[c].pc = "del_write" /\ calls'[c].ret = "true")
            => ~Alive(procs, calls[c].id)]_vars

\* C7: stopStream on a stream that is already stopped returns a failure
\* (NotRunning) and has no side effect: no kill, record and log unchanged.
StopOnStoppedIsNotRunning ==
    [][\A c \in Slots :
        (/\ calls[c].op = "stop" /\ calls[c].pc = "stop_find" /\ Steps(c)
         /\ Stored(calls[c].id)
         /\ ~StreamOf(streams, calls[c].id).active
         /\ ~Alive(procs, calls[c].id))
            => /\ calls'[c].pc = "done" /\ calls'[c].ret = "false"
               /\ streams' = streams /\ logs' = logs /\ procs' = procs]_vars

\* C8: startStream on a stream whose process is alive fails (AlreadyRunning):
\* the caller gets a failure and no second process is launched.
StartOnAliveFails ==
    [][\A c \in Slots :
        (/\ calls[c].op = "start" /\ calls[c].pc = "start_find" /\ Steps(c)
         /\ Stored(calls[c].id)
         /\ Alive(procs, calls[c].id))
            => /\ calls'[c].pc = "done" /\ calls'[c].ret = "false"
               /\ procs' = procs]_vars

\* C10: whenever no call is in progress, the active flag of every stored
\* stream is true exactly when a process launched for that stream is alive.
ActiveIffAlive ==
    Quiescent =>
        \A i \in 1..Len(streams) : streams[i].active <=> Alive(procs, streams[i].id)

\* the parseable lines of a file, oldest first
RECURSIVE ParsedRecords(_)
ParsedRecords(lines) ==
    IF lines = <<>> THEN <<>>
    ELSE IF Parses(Head(lines)) THEN <<JSONparse(Head(lines))>> \o ParsedRecords(Tail(lines))
         ELSE ParsedRecords(Tail(lines))

Min(a, b) == IF a < b THEN a ELSE b

\* the limit most recent of the records, newest first
NewestFirst(records, limit) ==
    [k \in 1..Min(limit, Len(records)) |-> records[Len(records) - k + 1]]

\* C9: getStreamLogs(id, N) returns at most N records: the N most recently
\* appended parseable records (all when fewer exist), newest first; lines that
\* do not parse are skipped and not counted.
LogsNewestFirst ==
    logResult.done =>
        /\ Len(logResult.logs) <= logLimit
        /\ logResult.logs =
              IF logData.exists
              THEN NewestFirst(ParsedRecords(Split(logData.data)), logLimit)
              ELSE <<>>

\* a file with more parseable records than the limit and a line that does not
\* parse among the newest lines has been read
LogsNewestFirstWitness ==
    /\ logResult.done
    /\ logData.exists
    /\ logLimit = 1
    /\ ParsedRecords(Split(logData.data)) = <<"a", "b">>
    /\ logResult.logs = <<"b">>
    /\ \E i \in 1..Len(logData.data) : logData.data[i] = "x"

\* the ids of a stream list, in order
IdsOf(list) == [i \in 1..Len(list) |-> list[i].id]

\* C11: stream ids are unique and immutable: no two stored streams share an
\* id, and updateStream leaves the id of the record it rewrites as it was.
StreamIdsUniqueImmutable ==
    [][/\ \A i, j \in 1..Len(streams') : i # j => streams'[i].id # streams'[j].id
       /\ \A c \in Slots :
            (calls[c].pc = "upd_write" /\ Steps(c) /\ FindIndex(calls[c].snap, calls[c].id) # 0)
                => streams'[FindIndex(calls[c].snap, calls[c].id)].id = calls[c].id]_vars

\* C12: startStream marks the stream active and reports success only when the
\* process it launched exists; when the process cannot be spawned it reports
\* failure and the stream stays inactive.
StartConfirmsProcess ==
    [][\A c \in Slots :
        /\ (calls[c].pc = "start_write" /\ Steps(c)) => Alive(procs, calls[c].id)
        /\ (calls[c].pc = "start_log" /\ Steps(c) /\ calls'[c].ret = "true")
                => Alive(procs, calls[c].id)]_vars

\* the processes launched for stream id, and the stored records with that id
UnitsOf(pr, id) == {pr[i] : i \in Launches(pr, id)}
RecordsOf(list, id) == {list[i] : i \in {k \in 1..Len(list) : list[k].id = id}}

\* C14: stopStream(A) ends only processes launched for A: the processes and
\* the stored record of every other stream B are as before each of its steps.
StopKillsOnlyOwn ==
    [][\A c \in Slots :
        (calls[c].op = "stop" /\ Steps(c))
            => \A B \in Ids \ {calls[c].id} :
                  /\ UnitsOf(procs', B) = UnitsOf(procs, B)
                  /\ RecordsOf(streams', B) = RecordsOf(streams, B)]_vars

\* the state InitStats and InitInfo start from is reached by add and start
StartedStoreReached ==
    ~(/\ streams = <<StartedStream>>
      /\ scripts[1] = StartedScript
      /\ logs[1] = File(<<LogStarted>>)
      /\ procs = StartedProcs
      /\ calls = StartedCalls
      /\ nextId = 1 /\ issued = 1)

\* C13: getStreamProcessInfo(id) reports a process that was launched for
\* stream id, never one of another stream.
ProcessInfoOwnProcess ==
    [][(reply' # reply /\ reply'.op = "info" /\ reply'.status = 200 /\ reply'.body.running)
          => procs[reply'.body.pid.launch].sid = reply'.id]_vars

Zeros == [total |-> 0, used |-> 0, free |-> 0, percent |-> 0]

\* C16: no failure of a probe command reaches the caller: GET /api/streams
\* answers 200 with a complete SystemStats value whose cpu, memory and disk are
\* the placeholders when their command failed or printed nothing usable, and
\* the process endpoint answers 200 with a value for every stored stream.
ProbeFailuresContained ==
    /\ reply.op = "dashboard" =>
          /\ reply.status = 200
          /\ LET s == reply.body.systemStats
             IN /\ DOMAIN s = {"cpu", "memory", "disk", "uptime"}
                /\ DOMAIN s.memory = DOMAIN Zeros /\ DOMAIN s.disk = DOMAIN Zeros
                /\ platform # "other" =>
                      /\ osProbes["cpu"] # "ok" => s.cpu = "0 %"
                      /\ osProbes["mem"] # "ok" => s.memory = Zeros
                      /\ osProbes["disk"] # "ok" => s.disk = Zeros
    /\ (reply.op = "info" /\ Stored(reply.id)) =>
          /\ reply.status = 200
          /\ "running" \in DOMAIN reply.body

\* the dashboard was answered after the memory command threw and the cpu
\* command had succeeded
ProbeFailuresContainedWitness ==
    /\ reply.op = "dashboard" /\ platform = "linux"
    /\ osProbes["cpu"] = "ok" /\ osProbes["mem"] = "throws"
    /\ reply.status = 200
    /\ reply.body.systemStats.cpu = "5 %"
    /\ reply.body.systemStats.memory = Zeros
    /\ reply.body.systemStats.uptime = ""

\* the value of the last progress line among the lines given
LastStats(lines) ==
    IF \E i \in 1..Len(lines) : HasStats(lines[i])
    THEN StatsValue(lines[CHOOSE i \in 1..Len(lines) :
                            HasStats(lines[i]) /\ \A j \in (i + 1)..Len(lines) : ~HasStats(lines[j])])
    ELSE "N/A"
LastOf(data, n) == SubSeq(data, IF Len(data) > n THEN Len(data) - n + 1 ELSE 1, Len(data))

\* C17: for a running stream, bitrate and fps are those of the most recent
\* progress line among the last 20 lines of the log, and 'N/A' when there is
\* none.
StatsAreLastSeen ==
    (reply.op = "info" /\ reply.status = 200 /\ reply.body.running) =>
        /\ reply.body.bitrate = LastStats(LastOf(logs[reply.id].data, TailWindow))
        /\ reply.body.fps = LastStats(LastOf(logs[reply.id].data, TailWindow))

\* C19: every operation addressed to an unknown stream id reports NotFound
\* (404) and changes neither the store nor a script, a log or a process.
UnknownIdIsNotFound ==
    [][/\ (reply' # reply /\ reply'.op \in {"get", "info", "logs", "clear"}
              /\ ~Stored(reply'.id))
          => /\ reply'.status = 404
             /\ UNCHANGED <<streams, scripts, logs, procs>>
       /\ \A c \in Slots :
            (Steps(c) /\ calls[c].op \in {"update", "delete", "start", "stop", "restart"}
                /\ ~Stored(calls[c].id))
              => /\ UNCHANGED <<streams, scripts, logs, procs>>
                 /\ calls'[c].pc = "done" => Status(calls'[c]) = 404]_vars

\* C15: on every platform, when the transcoder of a started stream exits on
\* its own a relaunch follows, and the delay before each relaunch is at least
\* twice the delay before the previous one.
RetryBacksOff ==
    [][/\ (loop.pc = "running" /\ loop'.pc \notin {"running", "stopped"})
            => loop'.pc = "sleeping"
       /\ (loop'.attempts = loop.attempts + 1 /\ loop.attempts >= 2)
            => loop'.delay >= 2 * loop.delay]_vars

Required == {"name", "link1", "key", "rtmp"}

\* C18: a create request that lacks a required field is answered 400 and
\* changes nothing: only a body with name, link1, key and rtmp reaches
\* addStream, and the step that answers 400 leaves the store, the scripts, the
\* logs and the processes as they were.
CreateValidated ==
    [][\A c \in Slots :
        (Steps(c) /\ calls'[c].op = "add" /\ calls[c].pc # "add_write")
            => /\ calls'[c].pc = "add_write"
                    => \A f \in Required : Truthy(Field(calls'[c].body, f))
               /\ calls'[c].pc = "done"
                    => /\ Status(calls'[c]) = 400
                       /\ UNCHANGED <<streams, scripts, logs, procs, nextId>>]_vars

\* a create request was answered 400 after a stream had been stored
CreateValidatedWitness ==
    \E c \in Slots :
        /\ calls[c].op = "add" /\ calls[c].pc = "done" /\ Status(calls[c]) = 400
        /\ Len(streams) = 1 /\ nextId = 1

\* C20: addStream stores the new stream inactive, with an id no stored stream
\* has and createdAt = updatedAt, whatever the request carries; it launches no
\* process, and the log file and the script of the new id exist afterwards.
AddStoresFresh ==
    [][\A c \in Slots :
        (calls[c].pc = "add_write" /\ Steps(c))
            => LET new == streams'[Len(streams')]
               IN /\ Len(streams') = Len(calls[c].snap) + 1
                  /\ ~new.active
                  /\ \A i \in 1..Len(streams) : streams[i].id # new.id
                  /\ new.createdAt = new.updatedAt
                  /\ new.createdAt = Now
                  /\ procs' = procs
                  /\ logs'[new.id].exists /\ scripts'[new.id].exists]_vars

\* a request carrying id, active: true and timestamps of its own was stored
AddStoresFreshWitness ==
    \E c \in Slots :
        /\ calls[c].op = "add" /\ calls[c].pc = "done" /\ calls[c].ret = "stream"
        /\ "id" \in DOMAIN calls[c].body /\ calls[c].body.active
        /\ Len(streams) = 2
        /\ streams[2].id = 2 /\ ~streams[2].active
        /\ streams[2].createdAt # 0

\* a is an initial part of b
IsPrefix(a, b) == Len(a) <= Len(b) /\ SubSeq(b, 1, Len(a)) = a

\* a step of deleteStream that removes the files, or of clearStreamLogs
RemovesLogs ==
    \/ \E c \in Slots : calls[c].pc = "del_write" /\ Steps(c)
    \/ reply' # reply /\ reply'.op = "clear"

\* C21: the log of a stream is append-only: on every platform, a step that
\* is not a step of delete or of clear-logs leaves every record of every
\* existing log file in place and only adds records at its end.
LogAppendOnly ==
    [][~RemovesLogs =>
          \A id \in Ids :
              logs[id].exists =>
                  logs'[id].exists /\ IsPrefix(logs[id].data, logs'[id].data)]_vars

\* a metrics request is answered: getStreamProcessInfo, or getStreamStats,
\* getSystemStats and getCategoryStats for the dashboard
Samples == reply' # reply /\ reply'.op \in {"info", "dashboard"}

\* C22: metrics sampling is read-only: a step of getStreamProcessInfo,
\* getStreamStats, getSystemStats or getCategoryStats, between or during
\* control operations, leaves the stream store, every log file, every script,
\* every process and every call in progress as they were.
SamplingReadOnly ==
    [][Samples => UNCHANGED <<streams, scripts, logs, procs, calls, nextId, issued>>]_vars

\* the dashboard was answered during a restart, after its stop had written the
\* store and before its start
SamplingReadOnlyWitness ==
    /\ reply.op = "dashboard" /\ reply.status = 200
    /\ calls[1].op = "restart" /\ calls[1].pc = "sleep"
    /\ Stored(calls[1].id)
    /\ StreamOf(streams, calls[1].id).updatedAt = Now
    /\ reply.body.streams = streams
    /\ Alive(procs, calls[1].id)

\* the next step of a stopStream call
StopStep(c) ==
    StopKill(c) \/ StopWrite(c) \/ StopLog(c) \/ StopWarnRead(c) \/ StopWarnWrite(c)

\* C23: stopStream on a stored stream always completes and returns true,
\* whether the kill command succeeds or throws: its next step can always be
\* taken; the step that runs the kill command either appends nothing and goes
\* on to the success path, or appends one warning record and goes on to the
\* catch path; the success path appends one info record, the catch path none;
\* and on return the result is true and the stream's active flag is false.
StopAlwaysCompletes ==
    /\ [](\A c \in Slots : (calls[c].op = "stop" /\ InFlight(c)) => ENABLED StopStep(c))
    /\ [][\A c \in Slots :
            (calls[c].op = "stop" /\ InFlight(c) /\ Steps(c))
                => LET id == calls[c].id
                   IN /\ (calls[c].pc = "stop_find" /\ FindIndex(calls[c].snap, id) # 0)
                            => \/ calls'[c].pc = "stop_write" /\ logs' = logs
                               \/ /\ calls'[c].pc = "stop_wread"
                                  /\ logs' = appendToLog(logs, id, LogStopError)
                      /\ calls[c].pc \in {"stop_write", "stop_wread", "stop_wwrite"}
                            => logs' = logs
                      /\ calls[c].pc = "stop_log"
                            => logs' = appendToLog(logs, id, LogStopped)
                      /\ calls[c].pc \in {"stop_log", "stop_wwrite"}
                            => /\ calls'[c].pc = "done" /\ calls'[c].ret = "true"
                               /\ FindIndex(streams', id) # 0
                               /\ ~StreamOf(streams', id).active]_vars

\* a stop returned true after its kill command had thrown and the process of
\* the stream had stayed alive: the stream is inactive and the last record of
\* its log is the warning
StopAlwaysCompletesWitness ==
    /\ calls[1].op = "stop" /\ calls[1].pc = "done" /\ calls[1].ret = "true"
    /\ Stored(calls[1].id)
    /\ ~StreamOf(streams, calls[1].id).active
    /\ Alive(procs, calls[1].id)
    /\ logs[calls[1].id].data # <<>>
    /\ logs[calls[1].id].data[Len(logs[calls[1].id].data)] = LogStopError

\* C24: startStream on a stream whose active flag is true is a no-op that
\* returns true: it launches no process, appends no log record and leaves
\* the stored records, updatedAt included, and the scripts unchanged.
StartOnActiveIsNoOp ==
    [][\A c \in Slots :
        (/\ calls[c].pc = "start_find" /\ Steps(c)
         /\ FindIndex(calls[c].snap, calls[c].id) # 0
         /\ StreamOf(calls[c].snap, calls[c].id).active)
            => /\ calls'[c].pc = "done" /\ calls'[c].ret = "true"
               /\ ~calls'[c].launched
               /\ UNCHANGED <<streams, scripts, logs, procs>>]_vars

\* a start of a started stream has returned true: the stream has the one
\* process and the one log record of its first start, and the record written
\* by that start
StartOnActiveIsNoOpWitness ==
    /\ calls[1].op = "start" /\ calls[1].pc = "done" /\ calls[1].ret = "true"
    /\ ~calls[1].launched
    /\ Stored(calls[1].id)
    /\ StreamOf(streams, calls[1].id).active
    /\ StreamOf(streams, calls[1].id).updatedAt < Now - 1
    /\ Cardinality(Launches(procs, calls[1].id)) = 1
    /\ logs[calls[1].id].data = <<LogStarted>>

\* C25: after deleteStream(id) has returned true the store holds no record
\* with that id and neither the script nor the log file of that id exists,
\* also when a start, stop or restart of the id is in flight; and the step of
\* deleteStream that removes them leaves the records, scripts and logs of the
\* other streams as they were.
DeleteRemovesAll ==
    /\ [](\A c \in Slots :
            (calls[c].op = "delete" /\ calls[c].pc = "done" /\ calls[c].ret = "true")
                => /\ ~Stored(calls[c].id)
                   /\ ~scripts[calls[c].id].exists
                   /\ ~logs[calls[c].id].exists)
    /\ [][\A c \in Slots :
            (calls[c].pc = "del_write" /\ Steps(c))
                => \A B \in Ids \ {calls[c].id} :
                      /\ RecordsOf(streams', B) = RecordsOf(streams, B)
                      /\ scripts'[B] = scripts[B]
                      /\ logs'[B] = logs[B]]_vars

\* C26: after any sequence of addStream and updateStream calls the script of
\* every stored stream exists and embeds the stream's current input URL,
\* output URL and key, bitrate and resolution, also after an update that sets
\* one of them to an empty value.
ScriptMatchesStream ==
    \A i \in 1..Len(streams) :
        /\ scripts[streams[i].id].exists
        /\ scripts[streams[i].id].data = ScriptOf(streams[i])

\* C27: once a stopStream(id) call has completed, no call for that id that
\* was received before the stop launches a process: a restartStream(id) that
\* was in its 1-second wait when the stop ran, or a startStream(id) still in
\* progress, launches nothing afterwards.
StopStaysStopped ==
    [][\A c, d \in Slots :
        (/\ calls[c].op = "stop" /\ calls[c].pc = "done" /\ calls[c].ret = "true"
         /\ calls[d].op \in {"start", "restart"} /\ calls[d].id = calls[c].id
         /\ calls[d].at < calls[c].at
         /\ Steps(d))
            => Cardinality(Launches(procs', calls[c].id))
                  <= Cardinality(Launches(procs, calls[c].id))]_vars

\* the streams of a list whose active flag is set
ActiveIn(list) == {i \in 1..Len(list) : list[i].active}

\* C28: for every store content getStreamStats returns total = active +
\* inactive = the number of stored streams, active = the number of streams
\* whose flag is set, and healthy + warning + error + unknown = active: each
\* active stream is in exactly one bucket and no inactive stream is in any.
StatsAddUp ==
    (reply.op = "dashboard" /\ reply.status = 200) =>
        LET s == reply.body.stats
        IN /\ s.total = Len(streams)
           /\ s.total = s.active + s.inactive
           /\ s.active = Cardinality(ActiveIn(streams))
           /\ s.health.healthy + s.health.warning + s.health.error + s.health.unknown
                 = s.active
           /\ \A h \in DOMAIN s.health : s.health[h] >= 0

\* the dashboard was answered for an active stream whose log holds a warning
\* and an inactive stream whose log holds an error
StatsAddUpWitness ==
    /\ reply.op = "dashboard" /\ reply.status = 200
    /\ Len(streams) = 2
    /\ streams[1].active /\ ~streams[2].active
    /\ logs[1].data = <<LogStopError>> /\ logs[2].data = <<LogStartError>>
    /\ reply.body.stats =
          [total |-> 2, active |-> 1, inactive |-> 1,
           health |-> [healthy |-> 0, warning |-> 1, error |-> 0, unknown |-> 0]]

\* the stream a call changes: the one it creates, or the one it names
Target(c) == IF calls[c].op = "add" THEN nextId + 1 ELSE calls[c].id

\* C29: no store mutation is lost: a step of addStream, updateStream,
\* deleteStream or of the active-flag write of start/stop that writes the
\* stream list leaves the records of every other stream as they are in the
\* store at that moment, so that the list reflects the overlapping
\* operations on other streams as well.
NoLostUpdate ==
    [][\A c \in Slots :
        (Steps(c) /\ streams' # streams)
            => \A B \in Ids \ {Target(c)} :
                  RecordsOf(streams', B) = RecordsOf(streams, B)]_vars

\* C30: after any sequence of addToast, updateToast and dismissToast calls
\* and removal timers the toast list holds at most 5 toasts, no two with the
\* same id, newest first; and a toast that is open (added, and not dismissed
\* since its last addToast) leaves the list only in an addToast that pushes
\* it out at the 5-toast limit.
ToastListKept ==
    /\ [](LET list == toasts.list
          IN /\ Len(list) <= TOAST_LIMIT
             /\ \A i, j \in 1..Len(list) : i # j => list[i].id # list[j].id
             /\ \A i \in 1..(Len(list) - 1) : list[i].createdAt >= list[i + 1].createdAt)
    /\ [][\A i \in 1..Len(toasts.list) :
            (toasts.list[i].open /\ toasts.list[i].id \notin ToastIds(toasts'.list))
                => /\ toasts'.op = "add"
                   /\ i = TOAST_LIMIT
                   /\ Len(toasts'.list) = TOAST_LIMIT]_vars

====
